---- MODULE Spec2Model ----
(***************************************************************************)
(* Model of content_fetcher.fetch_post: the profile retry loop with        *)
(* block-page sniffing, followed by content-area discovery, heading and    *)
(* link extraction, and slug derivation.                                   *)
(*                                                                         *)
(* Strings are TLA+ strings handled character by character with Len,       *)
(* SubSeq and \o.  An optional value (Python None or a value) is a         *)
(* sequence of length 0 or 1.                                              *)
(***************************************************************************)
EXTENDS Naturals, Sequences, FiniteSets, TLC

VARIABLES url, site, pc, i, last_error, response, gets, soup, title, sel,
          content_area, headings, internal_links, external_links, ai, result

vars == <<url, site, pc, i, last_error, response, gets, soup, title, sel,
          content_area, headings, internal_links, external_links, ai, result>>

None == <<>>

Some(x) == <<x>>

IsNone(o) == Len(o) = 0

Val(o) == o[1]

Min(a, b) == IF a < b THEN a ELSE b

-----------------------------------------------------------------------------
(* String helpers: Python str methods used by the source.                  *)

CharAt(s, k) == SubSeq(s, k, k)

\* str.startswith
StartsWith(s, p) == Len(s) >= Len(p) /\ SubSeq(s, 1, Len(p)) = p

\* the `in` operator on strings
Contains(s, p) ==
  \E k \in 1..(Len(s) + 1) : k + Len(p) - 1 <= Len(s) /\ SubSeq(s, k, k + Len(p) - 1) = p

UpperLetters == "ABCDEFGHIJKLMNOPQRSTUVWXYZ"

LowerLetters == "abcdefghijklmnopqrstuvwxyz"

UpperSet == { CharAt(UpperLetters, k) : k \in 1..Len(UpperLetters) }

LowerChar(c) ==
  IF c \in UpperSet
  THEN CharAt(LowerLetters, CHOOSE k \in 1..Len(UpperLetters) : CharAt(UpperLetters, k) = c)
  ELSE c

RECURSIVE LowerStr(_)
\* str.lower, by halves so that long strings stay cheap
LowerStr(s) ==
  IF Len(s) = 0 THEN ""
  ELSE IF Len(s) = 1 THEN LowerChar(s)
  ELSE LET h == Len(s) \div 2
       IN LowerStr(SubSeq(s, 1, h)) \o LowerStr(SubSeq(s, h + 1, Len(s)))

RECURSIVE RStrip(_, _)
\* str.rstrip(c): removes every trailing c
RStrip(s, c) ==
  IF Len(s) > 0 /\ CharAt(s, Len(s)) = c THEN RStrip(SubSeq(s, 1, Len(s) - 1), c) ELSE s

\* smallest index >= from of a character of `chars`, Len(s) + 1 when there is none
FindFirst(s, chars, from) ==
  LET hits == {k \in from..Len(s) : CharAt(s, k) \in chars}
  IN IF hits = {} THEN Len(s) + 1 ELSE CHOOSE k \in hits : \A m \in hits : k <= m

\* s.split("/")[-1]
LastSegment(s) ==
  LET hits == {k \in 1..Len(s) : CharAt(s, k) = "/"}
      last == IF hits = {} THEN 0 ELSE CHOOSE k \in hits : \A m \in hits : m <= k
  IN SubSeq(s, last + 1, Len(s))

RECURSIVE Sum(_)
Sum(ns) == IF Len(ns) = 0 THEN 0 ELSE Head(ns) + Sum(Tail(ns))

-----------------------------------------------------------------------------
(* urllib.parse.urlparse on scheme://netloc/path?query#fragment             *)

NetlocStart(u) == FindFirst(u, {":"}, 1) + 3

NetlocEnd(u) == FindFirst(u, {"/", "?", "#"}, NetlocStart(u))

\* urlparse(url).netloc: everything between "//" and the next "/", "?" or "#"
UrlNetloc(u) == SubSeq(u, NetlocStart(u), NetlocEnd(u) - 1)

\* urlparse(url).path
UrlPath(u) == SubSeq(u, NetlocEnd(u), FindFirst(u, {"?", "#"}, NetlocEnd(u)) - 1)

-----------------------------------------------------------------------------
(* Compiled-in configuration                                               *)

HEADER_SETS ==
  << [UserAgent |-> "Mozilla/5.0 (compatible; BlogRevivalBot/1.0; +https://airanking.com)"],
     [UserAgent |-> "Mozilla/5.0 (Windows NT 10.0; Win64; x64) AppleWebKit/537.36 (KHTML, like Gecko) Chrome/124.0.0.0 Safari/537.36",
      Accept |-> "text/html,application/xhtml+xml,application/xml;q=0.9,*/*;q=0.8",
      AcceptLanguage |-> "en-US,en;q=0.9"] >>

NumProfiles == Len(HEADER_SETS)

CONTENT_SELECTORS ==
  << ".post-content", ".entry-content", ".post-body", ".article-body", ".blog-post",
     ".single-post", "#content", ".content", "article", "main" >>

NumSelectors == Len(CONTENT_SELECTORS)

MIN_CONTENT_WORDS == 100

PrefixLen == 5000

signals == <<"just a moment", "checking your browser", "cf-challenge", "challenge-platform">>

BlockedMsg == "Cloudflare blocked the request (challenge page returned)"

GenericMsg == "Failed to fetch the page"

\* the sniffing without the lower(): a plausible slip
is_blocked_page_cased(html) ==
  LET prefix == SubSeq(html, 1, Min(PrefixLen, Len(html)))
  IN \E k \in 1..Len(signals) : Contains(prefix, signals[k])

\* _is_blocked_page: html[:5000].lower() contains one of the signals
is_blocked_page(html) ==
  LET lower == LowerStr(SubSeq(html, 1, Min(PrefixLen, Len(html))))
  IN \E k \in 1..Len(signals) : Contains(lower, signals[k])

\* Response.raise_for_status raises HTTPError for 4xx and 5xx only
RaisesForStatus(status) == 400 <= status /\ status < 600

StatusStr(status) ==
  CASE status = 200 -> "200" [] status = 304 -> "304" [] status = 404 -> "404"
    [] status = 503 -> "503" [] OTHER -> "000"

\* str(HTTPError) as raise_for_status builds it
HTTPErrorMsg(status, u) ==
  StatusStr(status) \o (IF status < 500 THEN " Client Error" ELSE " Server Error")
    \o " for url: " \o u

-----------------------------------------------------------------------------
(* Parsed documents.  An element of the parse tree (a region) carries its   *)
(* identity, its descendant text nodes in document order (each text node    *)
(* is represented by the number of whitespace-separated words in it, 0 for  *)
(* a whitespace-only node), its heading elements and its anchor elements.   *)

Region(id, texts, heads, anchors) ==
  [id |-> id, texts |-> texts, heads |-> heads, anchors |-> anchors]

Anchor(text, href) == [text |-> text, href |-> href]

Heading(name, text) == [name |-> name, text |-> text]

Doc(h1, titleTag, matches, body, root) ==
  [h1 |-> h1, title |-> titleTag, matches |-> matches, body |-> body, root |-> root]

\* the non-empty strings of a region after stripping each: what
\* Tag._all_strings(strip=True) yields
StrippedStrings(region) == SelectSeq(region.texts, LAMBDA n : n > 0)

\* len(tag.get_text(strip=True).split()): the stripped strings are joined
\* with the default separator "", so the last word of one string and the
\* first word of the next become one token
JoinedWordCount(region) ==
  LET ss == StrippedStrings(region)
  IN IF Len(ss) = 0 THEN 0 ELSE Sum(ss) - (Len(ss) - 1)

\* tag.get_text(separator="\n", strip=True), then re.sub(r"\n{3,}", "\n\n"):
\* one line per stripped string (stripped strings hold no newline run at
\* their ends, so the join creates no run of three)
BodyText(region) == StrippedStrings(region)

\* len(body_text.split())
WordCount(region) == Sum(BodyText(region))

\* soup.select_one(selector): the first match in document order, or None
select_one(doc, s) ==
  IF Len(doc.matches[s]) = 0 THEN None ELSE Some(Head(doc.matches[s]))

RECURSIVE Strip(_)
\* str.strip on the blank
Strip(s) ==
  IF Len(s) > 0 /\ CharAt(s, 1) = " " THEN Strip(SubSeq(s, 2, Len(s)))
  ELSE IF Len(s) > 0 /\ CharAt(s, Len(s)) = " " THEN Strip(SubSeq(s, 1, Len(s) - 1))
  ELSE s

\* title resolution: first h1, else <title>, else ""
TitleOf(doc) ==
  IF ~IsNone(doc.h1) THEN Strip(Val(doc.h1))
  ELSE IF ~IsNone(doc.title) THEN Strip(Val(doc.title))
  ELSE ""

\* content_area.find_all(["h2", "h3"]) turned into {"level", "text"} records
HeadingsOf(region) ==
  LET hs == SelectSeq(region.heads, LAMBDA h : h.name \in {"h2", "h3"})
  IN [k \in 1..Len(hs) |-> [level |-> hs[k].name, text |-> Strip(hs[k].text)]]

\* content_area.find_all("a", href=True)
AnchorsOf(region) == SelectSeq(region.anchors, LAMBDA a : ~IsNone(a.href))

\* the slug with only one trailing slash removed: a plausible slip
SlugStripOne(u) ==
  LET p == UrlPath(u)
      path == IF Len(p) > 0 /\ CharAt(p, Len(p)) = "/" THEN SubSeq(p, 1, Len(p) - 1) ELSE p
  IN IF Contains(path, "/") THEN LastSegment(path)
     ELSE IF path # "" THEN path ELSE "post"

\* path.split("/")[-1] if "/" in path else path or "post", path rstripped
Slug(u) ==
  LET path == RStrip(UrlPath(u), "/")
  IN IF Contains(path, "/") THEN LastSegment(path)
     ELSE IF path # "" THEN path ELSE "post"

-----------------------------------------------------------------------------
(* The sites a call may face.  A site is what the server answers to each    *)
(* request profile: requests.get raising (with str(e) = msg), or a          *)
(* response with a status, a body text and the tree html.parser builds      *)
(* from that text.  Each profile is requested at most once per call, so a   *)
(* reply per profile describes the server completely.                       *)

Raise(msg) == [kind |-> "raise", msg |-> msg, status |-> 0, text |-> "", doc |-> None]

Resp(status, text, doc) ==
  [kind |-> "resp", msg |-> "", status |-> status, text |-> text, doc |-> Some(doc)]

MaxMatched == 2

MaxAnchors == 2

MaxPathPieces == 4

RECURSIVE Filler(_)
\* n characters that occur in no signal
Filler(n) ==
  IF n = 0 THEN "" ELSE IF n = 1 THEN "x"
  ELSE Filler(n \div 2) \o Filler(n - (n \div 2))

Texts ==
  { "<html><body>a post</body></html>",
    "<title>Just a moment...</title>",
    "<p>CHECKING YOUR BROWSER</p>",
    "<div class=challenge-platform>",
    Filler(PrefixLen - Len(signals[3])) \o signals[3],
    Filler(PrefixLen - Len(signals[3]) + 1) \o signals[3],
    Filler(PrefixLen) \o signals[1] }

CleanText == "<html><body>a post</body></html>"

BodyRegion ==
  Region(<<0, 1>>, <<40, 0, 30>>, <<Heading("h2", "Related")>>,
         <<Anchor("Home", Some("/"))>>)

RootRegion ==
  Region(<<0, 0>>, <<2, 40, 0, 30>>, <<Heading("h2", "Related")>>,
         <<Anchor("Home", Some("/"))>>)

\* candidate regions: 100 words in one text node, and 100 words in two text
\* nodes around a whitespace-only node
CandTexts == { <<100>>, <<50, 0, 50>> }

Cand(s, p, texts) ==
  Region(<<s, p>>, texts, <<Heading("h2", " Intro "), Heading("h4", "Note"), Heading("h3", "More")>>,
         <<Anchor("About", Some("/about"))>>)

\* the match lists of one selector: a single match, or a first match of 99
\* words followed by one of 100
CandLists(s) ==
  { <<Cand(s, 1, t)>> : t \in CandTexts } \cup { <<Cand(s, 1, <<99>>), Cand(s, 2, <<100>>)>> }

\* every assignment of match lists to at most n of the selectors
MatchMaps(n) ==
  UNION { { [s \in 1..NumSelectors |-> IF s \in S THEN f[s] ELSE <<>>] :
              f \in { g \in [S -> UNION { CandLists(s) : s \in S }] :
                        \A s \in S : g[s] \in CandLists(s) } } :
          S \in { T \in SUBSET (1..NumSelectors) : Cardinality(T) <= n } }

OnlyFirst(region) == [s \in 1..NumSelectors |-> IF s = 1 THEN <<region>> ELSE <<>>]

SimpleDoc ==
  Doc(Some(" My Post "), Some("My Post | Blog"), OnlyFirst(Cand(1, 1, <<100>>)),
      Some(BodyRegion), RootRegion)

BaseUrl == "https://x.com/blog/my-post/"

\* retry loop: every pair of replies
FetchReplies ==
  { Raise(""), Raise("timed out") }
    \cup { Resp(st, CleanText, SimpleDoc) : st \in {304, 404, 503} }
    \cup { Resp(200, t, SimpleDoc) : t \in Texts }
    \cup { Resp(503, "<title>Just a moment...</title>", SimpleDoc) }

FetchSites == { [url |-> BaseUrl, replies |-> <<a, b>>] : a, b \in FetchReplies }

\* content-area discovery: every match map, and every page structure
SelectDocs ==
  { Doc(None, Some("My Post | Blog"), m, Some(BodyRegion), RootRegion) : m \in MatchMaps(MaxMatched) }
    \cup { Doc(h, t, m, b, RootRegion) :
             h \in {None, Some(" My Post "), Some("")},
             t \in {None, Some("My Post | Blog")},
             m \in MatchMaps(1),
             b \in {None, Some(BodyRegion)} }

SelectSites ==
  { [url |-> BaseUrl, replies |-> <<Raise("timed out"), Resp(200, CleanText, d)>>] :
      d \in SelectDocs }

\* link classification: every short list of anchors, for several request URLs
Hrefs ==
  { "", "#section", "mailto:a@b.com", "/about", "https://x.com/other",
    "https://other.com/page", "//cdn.other.com/lib.js", "javascript:void(0)",
    "page.html", "http-notes.html" }

Anchors == { Anchor("link", Some(h)) : h \in Hrefs } \cup { Anchor("named", None) }

AnchorLists == UNION { [1..n -> Anchors] : n \in 0..MaxAnchors }

LinkUrls ==
  { "https://x.com/blog/my-post", "https://x.com:8080/blog/my-post",
    "https://editor@x.com/blog/my-post" }

LinkSites ==
  { [url |-> u,
     replies |-> <<Resp(200, CleanText,
                        Doc(None, None, OnlyFirst(Region(<<1, 1>>, <<100>>, <<>>, as)),
                            Some(BodyRegion), RootRegion)),
                   Raise("timed out")>>] :
      u \in LinkUrls, as \in AnchorLists }

\* slug derivation: every short path, with and without query or fragment
RECURSIVE Concat(_)
Concat(ps) == IF Len(ps) = 0 THEN "" ELSE Head(ps) \o Concat(Tail(ps))

Paths ==
  { p \in { Concat(ps) : ps \in UNION { [1..n -> {"/", "blog", "my-post"}] : n \in 0..MaxPathPieces } } :
      p = "" \/ StartsWith(p, "/") }

SlugUrls == { "https://x.com" \o p \o q : p \in Paths, q \in {"", "?ref=a/b", "#c/d/"} }

SlugSites ==
  { [url |-> u, replies |-> <<Resp(200, CleanText, SimpleDoc), Raise("timed out")>>] :
      u \in SlugUrls }

Sites == FetchSites \cup SelectSites \cup LinkSites \cup SlugSites

-----------------------------------------------------------------------------
(* fetch_post                                                               *)

Init ==
  /\ site \in Sites
  /\ url = site.url
  /\ pc = "loop"
  /\ i = 1
  /\ last_error = None
  /\ response = None
  /\ gets = <<>>
  /\ soup = None
  /\ title = ""
  /\ sel = 1
  /\ content_area = None
  /\ headings = <<>>
  /\ internal_links = <<>>
  /\ external_links = <<>>
  /\ ai = 1
  /\ result = None

\* what the server answers to the profile being tried
Reply == site.replies[i]

\* one more requests.get, logged with its outcome
Logged(outcome) == Append(gets, [profile |-> i, outcome |-> outcome])

ExtractUnchanged ==
  UNCHANGED <<soup, title, sel, content_area, headings, internal_links, external_links, ai>>

\* a rejection that keeps the first reason instead of the latest: a plausible slip
RejectsKeepFirst(outcome, reason) ==
  /\ last_error' = (IF IsNone(last_error) THEN Some(reason) ELSE last_error)
  /\ i' = i + 1
  /\ gets' = Logged(outcome)
  /\ UNCHANGED <<url, site, pc, response, result>>
  /\ ExtractUnchanged

\* an iteration that ends in `except Exception as e: last_error = str(e); continue`
\* or in the soft-block `continue`
Rejects(outcome, reason) ==
  /\ last_error' = Some(reason)
  /\ i' = i + 1
  /\ gets' = Logged(outcome)
  /\ UNCHANGED <<url, site, pc, response, result>>
  /\ ExtractUnchanged

\* requests.get raises
GetRaises ==
  /\ pc = "loop" /\ i <= NumProfiles
  /\ Reply.kind = "raise"
  /\ Rejects("raise", Reply.msg)

\* resp.raise_for_status() raises
StatusRaises ==
  /\ pc = "loop" /\ i <= NumProfiles
  /\ Reply.kind = "resp" /\ RaisesForStatus(Reply.status)
  /\ Rejects("status", HTTPErrorMsg(Reply.status, url))

\* the response is a challenge page
GetBlocked ==
  /\ pc = "loop" /\ i <= NumProfiles
  /\ Reply.kind = "resp" /\ ~RaisesForStatus(Reply.status)
  /\ is_blocked_page(Reply.text)
  /\ Rejects("blocked", BlockedMsg)

\* acceptance without the break: a plausible slip
GetAcceptedNoBreak ==
  /\ pc = "loop" /\ i <= NumProfiles
  /\ Reply.kind = "resp" /\ ~RaisesForStatus(Reply.status)
  /\ ~is_blocked_page(Reply.text)
  /\ response' = Some(Reply)
  /\ gets' = Logged("accepted")
  /\ i' = i + 1
  /\ UNCHANGED <<url, site, pc, last_error, result>>
  /\ ExtractUnchanged

\* response = resp; break
GetAccepted ==
  /\ pc = "loop" /\ i <= NumProfiles
  /\ Reply.kind = "resp" /\ ~RaisesForStatus(Reply.status)
  /\ ~is_blocked_page(Reply.text)
  /\ response' = Some(Reply)
  /\ gets' = Logged("accepted")
  /\ pc' = "parse"
  /\ UNCHANGED <<url, site, i, last_error, result>>
  /\ ExtractUnchanged

\* last_error or "Failed to fetch the page": None and "" are both falsy
FinalError(le) == IF IsNone(le) \/ Val(le) = "" THEN GenericMsg ELSE Val(le)

\* a failure record padded with an empty content field: a plausible slip
FailureRecordPadded(u, le) == [error |-> Some(FinalError(le)), url |-> u, slug |-> ""]

FailureRecord(u, le) == [error |-> Some(FinalError(le)), url |-> u]

\* the loop ran out of profiles: if response is None: return {...}
ReturnFailure ==
  /\ pc = "loop" /\ i > NumProfiles
  /\ IsNone(response)
  /\ result' = Some(FailureRecord(url, last_error))
  /\ pc' = "done"
  /\ UNCHANGED <<url, site, i, last_error, response, gets>>
  /\ ExtractUnchanged

\* soup = BeautifulSoup(response.text, "html.parser") and the title
ParseTitle ==
  /\ pc = "parse"
  /\ soup' = Val(response).doc
  /\ title' = TitleOf(Val(Val(response).doc))
  /\ sel' = 1
  /\ pc' = "select"
  /\ UNCHANGED <<url, site, i, last_error, response, gets, content_area, headings,
                 internal_links, external_links, ai, result>>

\* words >= _MIN_CONTENT_WORDS
AcceptsCandidate(c) == JoinedWordCount(c) >= MIN_CONTENT_WORDS

SelectUnchanged ==
  UNCHANGED <<url, site, i, last_error, response, gets, soup, title, headings,
              internal_links, external_links, ai, result>>

\* the selector matches nothing
SelectorNoMatch ==
  /\ pc = "select" /\ sel <= NumSelectors
  /\ IsNone(select_one(Val(soup), sel))
  /\ sel' = sel + 1
  /\ UNCHANGED <<pc, content_area>>
  /\ SelectUnchanged

\* the first match is too small
SelectorTooSmall ==
  /\ pc = "select" /\ sel <= NumSelectors
  /\ ~IsNone(select_one(Val(soup), sel))
  /\ ~AcceptsCandidate(Val(select_one(Val(soup), sel)))
  /\ sel' = sel + 1
  /\ UNCHANGED <<pc, content_area>>
  /\ SelectUnchanged

\* content_area = candidate; break
SelectorAccepted ==
  /\ pc = "select" /\ sel <= NumSelectors
  /\ ~IsNone(select_one(Val(soup), sel))
  /\ AcceptsCandidate(Val(select_one(Val(soup), sel)))
  /\ content_area' = select_one(Val(soup), sel)
  /\ pc' = "headings"
  /\ UNCHANGED sel
  /\ SelectUnchanged

\* a fallback that never looks at the body: a plausible slip
FallbackRootOnly(doc) == doc.root

\* soup.body or soup
FallbackArea(doc) == IF ~IsNone(doc.body) THEN Val(doc.body) ELSE doc.root

\* if not content_area: content_area = soup.body or soup
Fallback ==
  /\ pc = "select" /\ sel > NumSelectors
  /\ content_area' = Some(FallbackArea(Val(soup)))
  /\ pc' = "headings"
  /\ UNCHANGED sel
  /\ SelectUnchanged

ExtractHeadings ==
  /\ pc = "headings"
  /\ headings' = HeadingsOf(Val(content_area))
  /\ ai' = 1
  /\ pc' = "links"
  /\ UNCHANGED <<url, site, i, last_error, response, gets, soup, title, sel,
                 content_area, internal_links, external_links, result>>

\* the branch of the link loop an href takes, domain = urlparse(url).netloc
Classify(domain, href) ==
  IF href = "" \/ StartsWith(href, "#") \/ StartsWith(href, "mailto:") THEN "skip"
  ELSE IF domain # "" /\ Contains(href, domain) THEN "internal"
  ELSE IF StartsWith(href, "/") THEN "internal"
  ELSE IF StartsWith(href, "http") THEN "external"
  ELSE "drop"

\* the anchor the link loop is at
CurAnchor == AnchorsOf(Val(content_area))[ai]

CurClass == Classify(UrlNetloc(url), Val(CurAnchor.href))

LinkRecord(a) == [text |-> Strip(a.text), href |-> Val(a.href)]

InLinkLoop == pc = "links" /\ ai <= Len(AnchorsOf(Val(content_area)))

LinkUnchanged ==
  UNCHANGED <<url, site, pc, i, last_error, response, gets, soup, title, sel,
              content_area, headings, result>>

\* empty, fragment or mailto href: continue
LinkSkipped ==
  /\ InLinkLoop /\ CurClass = "skip"
  /\ ai' = ai + 1
  /\ UNCHANGED <<internal_links, external_links>>
  /\ LinkUnchanged

LinkInternal ==
  /\ InLinkLoop /\ CurClass = "internal"
  /\ internal_links' = Append(internal_links, LinkRecord(CurAnchor))
  /\ ai' = ai + 1
  /\ UNCHANGED external_links
  /\ LinkUnchanged

LinkExternal ==
  /\ InLinkLoop /\ CurClass = "external"
  /\ external_links' = Append(external_links, LinkRecord(CurAnchor))
  /\ ai' = ai + 1
  /\ UNCHANGED internal_links
  /\ LinkUnchanged

\* no branch of the if/elif chain applies
LinkDropped ==
  /\ InLinkLoop /\ CurClass = "drop"
  /\ ai' = ai + 1
  /\ UNCHANGED <<internal_links, external_links>>
  /\ LinkUnchanged

SuccessRecord ==
  [url |-> url,
   slug |-> Slug(url),
   title |-> title,
   headings |-> headings,
   body_text |-> BodyText(Val(content_area)),
   internal_links |-> internal_links,
   external_links |-> external_links,
   word_count |-> WordCount(Val(content_area)),
   error |-> None]

\* body text, word count, slug and the returned record
ReturnSuccess ==
  /\ pc = "links" /\ ai > Len(AnchorsOf(Val(content_area)))
  /\ result' = Some(SuccessRecord)
  /\ pc' = "done"
  /\ UNCHANGED <<url, site, i, last_error, response, gets, soup, title, sel,
                 content_area, headings, internal_links, external_links, ai>>

Next ==
  \/ GetRaises
  \/ StatusRaises
  \/ GetBlocked
  \/ GetAccepted
  \/ ReturnFailure
  \/ ParseTitle
  \/ SelectorNoMatch
  \/ SelectorTooSmall
  \/ SelectorAccepted
  \/ Fallback
  \/ ExtractHeadings
  \/ LinkSkipped
  \/ LinkInternal
  \/ LinkExternal
  \/ LinkDropped
  \/ ReturnSuccess

Spec == Init /\ [][Next]_vars

-----------------------------------------------------------------------------
(* Vocabulary of the properties                                            *)

Done == pc = "done"

Res == Val(result)

Failed == Done /\ ~IsNone(Res.error)

Succeeded == Done /\ IsNone(Res.error)

ContentFields ==
  {"slug", "title", "headings", "body_text", "internal_links", "external_links", "word_count"}

NineFields == ContentFields \cup {"url", "error"}

\* a 2xx status
IsSuccessStatus(status) == 200 <= status /\ status < 300

\* a signal occurs, in any letter case, wholly inside the first 5000 characters
HasSignalInPrefix(text) ==
  \E k \in 1..Len(signals) :
    \E p \in 1..(Min(PrefixLen, Len(text)) + 1) :
      /\ p + Len(signals[k]) - 1 <= Min(PrefixLen, Len(text))
      /\ \A j \in 1..Len(signals[k]) :
           LowerChar(CharAt(text, p + j - 1)) = CharAt(signals[k], j)

\* the body texts a site may serve that hold such a signal
SignalTexts == { t \in Texts : HasSignalInPrefix(t) }

\* the reason a rejected profile leaves behind
ReasonOf(r) ==
  IF r.kind = "raise" THEN r.msg
  ELSE IF RaisesForStatus(r.status) THEN HTTPErrorMsg(r.status, site.url)
  ELSE BlockedMsg

\* the plain-text word count of a region: the words of all its text nodes
PlainWords(region) == Sum(region.texts)

\* the selectors whose first match holds at least 100 words
LargeEnough(doc) ==
  { s \in 1..NumSelectors :
      Len(doc.matches[s]) > 0 /\ PlainWords(doc.matches[s][1]) >= MIN_CONTENT_WORDS }

Earliest(S) == CHOOSE s \in S : \A t \in S : s <= t

\* urlparse(url).hostname: the netloc without userinfo and port, lowercased
Hostname(u) ==
  LET n == UrlNetloc(u)
      ats == {k \in 1..Len(n) : CharAt(n, k) = "@"}
      from == IF ats = {} THEN 1 ELSE (CHOOSE k \in ats : \A m \in ats : m <= k) + 1
      to == FindFirst(n, {":"}, from) - 1
  IN LowerStr(SubSeq(n, from, to))

\* the anchors of the accepted region that carry an href, as link records
HrefAnchors == SelectSeq(Val(content_area).anchors, LAMBDA a : Len(a.href) = 1)

Kept(h) == h # "" /\ ~StartsWith(h, "#") /\ ~StartsWith(h, "mailto:")

Links(keep(_)) ==
  LET as == SelectSeq(HrefAnchors, LAMBDA a : keep(a.href[1]))
  IN [k \in 1..Len(as) |-> [text |-> Strip(as[k].text), href |-> as[k].href[1]]]

Hrefs_(links) == { links[k].href : k \in 1..Len(links) }

-----------------------------------------------------------------------------
(* Claim C1                                                                 *)

\* a transport error: the GET raises, or the status is not 2xx
TransportError(r) == r.kind = "raise" \/ ~IsSuccessStatus(r.status)

\* C1: if every profile yields a transport error, the returned record has a
\* non-null error and no content field.
C1_AllTransportErrorsFail ==
  (Done /\ \A k \in 1..NumProfiles : TransportError(site.replies[k]))
    => (~IsNone(Res.error) /\ DOMAIN Res \cap ContentFields = {})

-----------------------------------------------------------------------------
(* Claim C2                                                                 *)

\* C2: a response whose first 5000 characters hold a signal, in any letter
\* case, is never the accepted one, 2xx status or not; such a 2xx response
\* is logged as blocked and the next GET, if any, goes to the next profile.
C2_BlockedNeverAccepted ==
  /\ \A k \in 1..Len(gets) :
       LET r == site.replies[gets[k].profile]
       IN (r.kind = "resp" /\ r.text \in SignalTexts) =>
            /\ gets[k].outcome # "accepted"
            /\ IsSuccessStatus(r.status) => gets[k].outcome = "blocked"
            /\ k < Len(gets) => gets[k + 1].profile = gets[k].profile + 1
  /\ ~IsNone(response) => Val(response).text \notin SignalTexts

\* C2 witness: an upper-case challenge page with status 200 was passed over
\* and the next profile's response accepted
C2_Witness ==
  /\ pc = "parse"
  /\ Len(gets) = 2 /\ gets[1].outcome = "blocked" /\ gets[2].outcome = "accepted"
  /\ site.replies[1].status = 200
  /\ site.replies[1].text = "<p>CHECKING YOUR BROWSER</p>"

-----------------------------------------------------------------------------
(* Claim C3                                                                 *)

\* C3: selectors are walked in list order and only the first match of each
\* is looked at; the accepted region is the first match of the earliest
\* selector whose first match holds at least 100 words.
C3_EarliestLargeEnoughRegion ==
  (pc \in {"headings", "links", "done"} /\ ~IsNone(soup) /\ LargeEnough(Val(soup)) # {})
    => content_area = Some(Val(soup).matches[Earliest(LargeEnough(Val(soup)))][1])

-----------------------------------------------------------------------------
(* Claim C4                                                                 *)

ClaimInternal(h) == Kept(h) /\ (Contains(h, Hostname(url)) \/ StartsWith(h, "/"))

ClaimExternal(h) == Kept(h) /\ ~ClaimInternal(h) /\ StartsWith(h, "http")

\* C4: a kept anchor (href non-empty, no "#" or "mailto:" prefix) is in
\* internal_links iff its href contains the request URL's hostname or starts
\* with "/", else in external_links iff its href starts with "http"; "#" and
\* "mailto:" hrefs are in neither list; both lists are in document order.
C4_LinkClassification ==
  Succeeded =>
    /\ Res.internal_links = Links(ClaimInternal)
    /\ Res.external_links = Links(ClaimExternal)

-----------------------------------------------------------------------------
(* Claim C5                                                                 *)

SchemeRelative(h) == StartsWith(h, "//")

JavascriptUrl(h) == StartsWith(h, "javascript:")

RelativeNoSlash(h) == h # "" /\ ~StartsWith(h, "/") /\ ~StartsWith(h, "#") /\ ~Contains(h, ":")

\* C5: an href that is scheme-relative, a javascript: URL or a relative path
\* without a leading slash, and that does not contain the request hostname,
\* is in neither list.
C5_OtherHrefsDropped ==
  Succeeded =>
    \A k \in 1..Len(HrefAnchors) :
      LET h == HrefAnchors[k].href[1]
      IN ((SchemeRelative(h) \/ JavascriptUrl(h) \/ RelativeNoSlash(h))
            /\ ~Contains(h, Hostname(url)))
           => h \notin Hrefs_(Res.internal_links) \cup Hrefs_(Res.external_links)

-----------------------------------------------------------------------------
(* Claim C6                                                                 *)

\* the path with one trailing slash removed
StripOneSlash(p) ==
  IF Len(p) > 0 /\ CharAt(p, Len(p)) = "/" THEN SubSeq(p, 1, Len(p) - 1) ELSE p

\* what follows the last "/" of p (all of p when it holds none)
AfterLastSlash(p) ==
  LET slashes == {k \in 1..Len(p) : CharAt(p, k) = "/"}
  IN IF slashes = {} THEN p
     ELSE SubSeq(p, (CHOOSE k \in slashes : \A m \in slashes : m <= k) + 1, Len(p))

\* C6 as stated: the slug is the path with one trailing slash stripped, then
\* the text after the last "/"; "post" when nothing is left of the path
C6_SlugSingleStrip ==
  Succeeded =>
    Res.slug = (IF StripOneSlash(UrlPath(url)) = "" THEN "post"
                ELSE AfterLastSlash(StripOneSlash(UrlPath(url))))

\* C6 as amended: the slug is the last run of non-slash characters of the path,
\* that is the text after the last "/" once every trailing slash is
\* stripped; "post" when the path holds nothing but slashes
C6_SlugAllStripped ==
  Succeeded =>
    LET p == UrlPath(url)
        solid == {k \in 1..Len(p) : CharAt(p, k) # "/"}
        e == CHOOSE k \in solid : \A m \in solid : m <= k
        before == {k \in 1..e : CharAt(p, k) = "/"}
        b == IF before = {} THEN 0 ELSE CHOOSE k \in before : \A m \in before : m <= k
    IN Res.slug = (IF solid = {} THEN "post" ELSE SubSeq(p, b + 1, e))

\* C6 witness: a path ending in two slashes still yields its last segment
C6_Witness ==
  Succeeded /\ url = "https://x.com/my-post//" /\ Res.slug = "my-post"

-----------------------------------------------------------------------------
(* Claim C7                                                                 *)

\* C7 as stated: when every profile was rejected the error is the reason
\* recorded for the most recently tried profile; the generic message only if
\* no reason was ever recorded
C7_LastReasonReturned ==
  Failed =>
    Res.error = Some(IF Len(gets) = 0 THEN GenericMsg
                     ELSE ReasonOf(site.replies[gets[Len(gets)].profile]))

\* C7 as amended: the reason recorded for the most recently tried profile,
\* whatever earlier profiles recorded, unless that reason is the empty
\* string; the generic message if no reason was recorded or the most recent
\* one is empty
C7_LastNonEmptyReasonReturned ==
  Failed =>
    LET last == IF Len(gets) = 0 THEN "" ELSE ReasonOf(site.replies[gets[Len(gets)].profile])
    IN Res.error = Some(IF last = "" THEN GenericMsg ELSE last)

\* C7 witness: a soft block followed by a timeout reports the timeout
C7_Witness ==
  /\ Failed
  /\ Len(gets) = NumProfiles
  /\ gets[1].outcome = "blocked" /\ gets[2].outcome = "raise"
  /\ Res.error = Some("timed out")

-----------------------------------------------------------------------------
(* Claim C8                                                                 *)

\* C8 as stated: the returned record holds all nine fields on the success
\* path and on the failure path alike
C8_AllNineFields == Done => DOMAIN Res = NineFields

\* C8 as amended: a success record holds all nine fields with error null; a
\* failure record holds exactly url and error, the content fields being
\* absent; url is the requested URL on both paths
C8_RecordShape ==
  Done =>
    /\ Res.url = url
    /\ IsNone(Res.error) => DOMAIN Res = NineFields
    /\ ~IsNone(Res.error) => DOMAIN Res = {"url", "error"}

\* C8 witness: a failure record after every profile was tried
C8_Witness == Failed /\ Len(gets) = NumProfiles /\ DOMAIN Res = {"url", "error"}

-----------------------------------------------------------------------------
(* Claim C9                                                                 *)

\* a reply the loop must pass over
MustReject(r) ==
  \/ r.kind = "raise"
  \/ RaisesForStatus(r.status)
  \/ r.text \in SignalTexts

\* C9: the retry loop is sequential with early exit: the k-th GET uses
\* profile k, every GET but the last was rejected, nothing is requested
\* after an acceptance, the accepted response is that of the first profile
\* whose reply is neither an error nor a challenge page, and at most
\* NumProfiles GETs are issued.
C9_SequentialEarlyExit ==
  /\ Len(gets) <= NumProfiles
  /\ \A k \in 1..Len(gets) : gets[k].profile = k
  /\ \A k \in 1..Len(gets) : k < Len(gets) => gets[k].outcome # "accepted"
  /\ \A k \in 1..Len(gets) :
       (gets[k].outcome = "accepted") <=> ~MustReject(site.replies[k])
  /\ IsNone(response) <=> (\A k \in 1..Len(gets) : gets[k].outcome # "accepted")
  /\ ~IsNone(response) => response = Some(site.replies[Len(gets)])
  /\ pc # "loop" /\ IsNone(response) => Len(gets) = NumProfiles

\* C9 witness: the second profile was requested after the first was
\* rejected, and its response accepted
C9_Witness ==
  /\ pc = "parse"
  /\ Len(gets) = 2 /\ gets[1].outcome = "status" /\ gets[2].outcome = "accepted"
  /\ response = Some(site.replies[2])

-----------------------------------------------------------------------------
(* Claim C10                                                                *)

\* C10: an accepted response always ends in a record with error null and
\* all content fields; with no selector whose first match holds 100 words
\* the content region is the body, or the whole document when there is no
\* body; no h1 and no title give an empty title, no h2/h3 and no anchors
\* give empty lists.
C10_ExtractionNeverFails ==
  /\ (Done /\ ~IsNone(response)) => (IsNone(Res.error) /\ DOMAIN Res = NineFields)
  /\ (pc \in {"headings", "links", "done"} /\ ~IsNone(soup) /\ LargeEnough(Val(soup)) = {}) =>
       content_area = (IF Len(Val(soup).body) = 1 THEN Val(soup).body
                       ELSE Some(Val(soup).root))
  /\ (Succeeded /\ Len(Val(soup).h1) = 0 /\ Len(Val(soup).title) = 0) => Res.title = ""
  /\ (Succeeded /\ \A k \in 1..Len(Val(content_area).heads) :
                     Val(content_area).heads[k].name \notin {"h2", "h3"})
       => Res.headings = <<>>
  /\ (Succeeded /\ Len(HrefAnchors) = 0)
       => (Res.internal_links = <<>> /\ Res.external_links = <<>>)

\* C10 witness: a page without h1, title, body or any selector match is extracted from
\* the whole document
C10_Witness ==
  /\ Succeeded
  /\ Len(Val(soup).h1) = 0 /\ Len(Val(soup).title) = 0 /\ Len(Val(soup).body) = 0
  /\ \A s \in 1..NumSelectors : Len(Val(soup).matches[s]) = 0
  /\ content_area = Some(Val(soup).root)
  /\ Res.title = "" /\ Res.word_count = PlainWords(Val(soup).root)

====
